---- MODULE Spec2Model ----
(***************************************************************************)
(* Model of S2_do_cc_byday.py (NoisePy step 2).                            *)
(*                                                                         *)
(* Spec      the processing of one day by one worker, from the data matrix *)
(*           parameters (line 167) to the end of the chunk loop (line      *)
(*           309), with the layout (nsta, ncomp, Nfft, Nseg) as read from  *)
(*           the station files.                                            *)
(* SpecMem   the memory estimate alone over a wider range of layouts.      *)
(* SpecProbe the layout probe (lines 152-169) of a worker's first day.     *)
(* SpecMPI   the script run by size workers side by side: startup, setup   *)
(*           at the root, broadcast, day loop and final barrier (lines     *)
(*           57-148, 312-317); the body of a day is one step there.        *)
(*                                                                         *)
(* Units: the code compares sizes in GB (bytes/1024/1024/1024) with        *)
(* MAX_MEM in GB.  The model keeps both sides in bytes, which is the same  *)
(* comparison and the same floor in exact arithmetic.                      *)
(*                                                                         *)
(* Arrays are 0-based functions (as in numpy); index lists such as bb are  *)
(* ascending sequences.  Spectra rows and timestamps are opaque tokens.    *)
(***************************************************************************)
EXTENDS Integers, Sequences, FiniteSets, TLC

\* ------------------------------------------------------------------ bounds
MaxSta == 3
MaxComp == 4
MaxTrace == 8
MaxSeg == 2
MaxOdd == 3
MemSmall == 16
MemLarge == 1024
MaxNfft == 5
MaxSegMem == 6
MaxMemMem == 64

\* ------------------------------------------------------- program constants
max_over_std == 10
BytesPerValue == 8
NfftDay == 4
NaN == -1
Unset == ""

VARIABLES
    auto_corr,      \* control parameter, line 88
    MAX_MEM,        \* memory budget per core (in bytes), line 103
    nsta, ncomp,    \* number of station files, components per station
    Nfft, Nseg,     \* layout parameters read from the first file
    ntrace, Nfft2,  \* lines 170-171
    num_load, nseg2load,            \* lines 174-180 (typed numbers)
    iload,          \* the next element of range(num_load), line 188
    isource, icompS, ireceiver, icompR,          \* loop indices
    fft_array, fft_std, fft_flag, Timestamps, sta_info,  \* the loaded chunk
    sfft1, source_std,              \* smoothed source spectrum, source stats
    bb,                             \* usable segments of the current pair
    compS, compR,                   \* component labels (script globals)
    cc_aday_h5,                     \* the day's output container
    log,                            \* history: calls made, in order
    error,                          \* the exception that ended the day
    pc,
    sfiles,         \* the station files: the number of data types of each
    jj, data_types, \* the layout probe, lines 153-165
    size,           \* number of workers, line 122
    launcher,       \* what the MPI runtime does when a worker dies
    f_metadata, CCFDIR, c_metadata,     \* the file system, lines 65-74
    nday,           \* len(day) as get_event_list returns it, line 131
    published,      \* the root has sent its values, lines 140-142
    splits, ii,     \* per worker: lines 140 and 145
    iters, days,    \* per worker: iterations entered, days begun
    wpc, werror     \* per worker: position, uncaught exception

vars == << auto_corr, MAX_MEM, nsta, ncomp, Nfft, Nseg, ntrace, Nfft2,
           num_load, nseg2load, iload, isource, icompS, ireceiver, icompR,
           fft_array, fft_std, fft_flag, Timestamps, sta_info, sfft1,
           source_std, bb, compS, compR, cc_aday_h5, log, error, pc,
           sfiles, jj, data_types, size, launcher, f_metadata, CCFDIR,
           c_metadata, nday, published, splits, ii, iters, days, wpc,
           werror >>

config == << auto_corr, MAX_MEM, nsta, ncomp, Nfft, Nseg >>
layout == << ntrace, Nfft2, num_load, nseg2load >>
chunk  == << fft_array, fft_std, fft_flag, Timestamps, sta_info >>
labels == << compS, compR >>
probe  == << sfiles, jj, data_types >>
files  == << f_metadata, CCFDIR, c_metadata >>
mpi    == << size, launcher, nday, published, splits, ii, iters, days, wpc,
            werror >>

\* ----------------------------------------------------------- typed numbers
\* A Python int, a numpy float64 (np.floor returns one), or float infinity.
PyInt(n)   == [t |-> "int",   v |-> n]
PyFloat(n) == [t |-> "float", v |-> n]
PyInf      == [t |-> "inf",   v |-> 0]

\* np.floor(a/b) for a >= 0, b >= 0; a/0.0 is inf in numpy (no exception).
FloorDiv(a, b) == IF b = 0 THEN PyInf ELSE PyFloat(a \div b)

\* ------------------------------------------------------------- memory plan
\* line 176-177: the whole day's spectra do not fit the budget.
ExceedsMemory(budget, tr, half, nseg) ==
    tr * half * nseg * BytesPerValue > budget

\* line 179 (and 175 when the day fits).
SegmentsPerLoad(budget, tr, half, nseg) ==
    IF ExceedsMemory(budget, tr, half, nseg)
    THEN FloorDiv(budget, tr * half * BytesPerValue)
    ELSE PyInt(nseg)

\* line 180 (and 174 when the day fits).
NumLoad(budget, tr, half, nseg) ==
    IF ExceedsMemory(budget, tr, half, nseg)
    THEN FloorDiv(nseg, SegmentsPerLoad(budget, tr, half, nseg).v)
    ELSE PyInt(1)

\* ------------------------------------------------------------ loaded data
Channels == 0 .. (ntrace - 1)
Rows(n)  == 0 .. (n - 1)

\* One row of a channel's spectrum, as an opaque token.
Row(c, i) == [ch |-> c, seg |-> i, smooth |-> FALSE]

\* What load_fft_matrix can return for one channel: its validity flag and
\* its per-segment statistics.  "good" is the default; the other kinds are
\* the deviations the loader may report (in one chunk at most MaxOdd
\* channels deviate, all in the same way).
Kinds == {"nodata", "zero", "nan", "odd", "split"}

FlagOf(kind) == IF kind = "nodata" THEN 0 ELSE 1

\* "zero", "nan": no segment passes; "odd": the odd segments pass, the even
\* ones sit exactly on the threshold; "split": as "odd" on the even
\* channels, and on the odd channels the even segments pass and the odd
\* ones are NaN; otherwise every segment passes (a channel without data
\* still carries such statistics).
StdOf(kind, c, n) ==
    [i \in Rows(n) |->
        CASE kind = "zero" -> 0
          [] kind = "nan"  -> NaN
          [] kind = "odd" \/ (kind = "split" /\ c % 2 = 0)
                           -> IF i % 2 = 1 THEN max_over_std - 1 ELSE max_over_std
          [] kind = "split" -> IF i % 2 = 0 THEN 1 ELSE NaN
          [] OTHER         -> 2]

\* Station codes of the station files, in file order (FDSN codes: upper
\* case letters and digits).
StationTable ==
    << [net |-> <<"A">>,      sta |-> <<"B", "C">>],
       [net |-> <<"A", "B">>, sta |-> <<"C">>],
       [net |-> <<"A">>,      sta |-> <<"B">>],
       [net |-> <<"X">>,      sta |-> <<"B", "1">>],
       [net |-> <<"X">>,      sta |-> <<"B">>],
       [net |-> <<"Y">>,      sta |-> <<"1">>] >>

StaInfo(n) == [i \in 0 .. (n - 1) |-> StationTable[i + 1]]

\* ------------------------------------------------------ segment filter
\* IEEE comparisons: any comparison with NaN is false.
Lt(a, b) == a # NaN /\ b # NaN /\ a < b
Gt(a, b) == a # NaN /\ b # NaN /\ a > b

\* Mutant of SegmentOk: the threshold is not strict.
SegmentOkMut(x) == Lt(x, max_over_std + 1) /\ Gt(x, 0) /\ x # NaN

\* lines 256-259: one endpoint's test of one segment statistic.
SegmentOk(x) == Lt(x, max_over_std) /\ Gt(x, 0) /\ x # NaN

\* The ascending sequence of the elements of a finite set of integers.
RECURSIVE SortedSeq(_)
SortedSeq(S) ==
    IF S = {} THEN << >>
    ELSE LET m == CHOOSE x \in S : \A y \in S : x <= y
         IN  << m >> \o SortedSeq(S \ {m})

\* np.where(cond)[0] over a statistics array: ascending indices.
Where(std) == SortedSeq({i \in DOMAIN std : SegmentOk(std[i])})

SeqRange(s) == {s[k] : k \in 1 .. Len(s)}

\* np.intersect1d: sorted unique values present in both.
Intersect1d(a, b) == SortedSeq(SeqRange(a) \cap SeqRange(b))

\* line 262: the usable segments of a pair.
UsableSegments(sstd, rstd) == Intersect1d(Where(sstd), Where(rstd))

\* Mutant of NoSegments: an empty intersection is not skipped.
NoSegmentsMut(b) == FALSE

\* line 263: the pair is skipped.
NoSegments(b) == Len(b) = 0

\* a[bb,:] : the rows of a at the indices bb, in that order.
Take(a, b) == [k \in 1 .. Len(b) |-> a[b[k]]]

\* smooth_source_spect + reshape: the same rows, smoothed.
\* Mutant of SmoothSourceSpect: the raw spectrum is passed on.
SmoothSourceSpectMut(a) == a
SmoothSourceSpect(a) == [i \in DOMAIN a |-> [a[i] EXCEPT !.smooth = TRUE]]

\* ------------------------------------------------------------ record keys
Digits == << "0", "1", "2", "3", "4", "5", "6", "7", "8", "9" >>

\* str(n) for n >= 0
RECURSIVE Str(_)
Str(n) == IF n < 10 THEN << Digits[n + 1] >>
          ELSE Str(n \div 10) \o << Digits[(n % 10) + 1] >>

\* lines 283-289: the label is assigned for indices 0, 1, 2 only; for any
\* other index the name keeps whatever it was bound to before.
LabelOf(icomp, old) ==
    IF icomp = 0 THEN "E"
    ELSE IF icomp = 1 THEN "N"
    ELSE IF icomp = 2 THEN "Z"
    ELSE old

\* line 292
PathOf(info, cR, il) == info.net \o << "s" >> \o info.sta \o << "s" >> \o << cR >> \o Str(il)
\* line 293
DataTypeOf(info, cS) == info.net \o << "s" >> \o info.sta \o << "s" >> \o << cS >>

\* ---------------------------------------------------------------- history
NoEvent ==
    [op |-> "", iload |-> iload, isource |-> isource, icompS |-> icompS,
     ireceiver |-> -1, icompR |-> -1, src |-> << >>, rec |-> << >>,
     ts |-> << >>, data_type |-> << >>, path |-> << >>]

SourceEvent(kind) == [NoEvent EXCEPT !.op = kind]

PairEvent(kind) ==
    [NoEvent EXCEPT !.op = kind, !.ireceiver = ireceiver, !.icompR = icompR]

\* -------------------------------------------------------------- positions
\* line 211, 243
ChannelIndex(ista, icomp) == ista * ncomp + icomp

\* Mutant of HasData: the validity flag is ignored.
HasDataMut(c) == TRUE

\* lines 214, 246: the channel has data.
HasData(c) == fft_flag[c] # 0

\* line 198: range(nsta-1)
SourceCount == nsta - 1

\* Mutant of FirstReceiver: the receiver loop starts at the source itself.
FirstReceiverMut(s) == s

\* line 230: range(isource+1, nsta)
FirstReceiver(s) == s + 1

Position(p, s, cs, r, cr) ==
    [pc |-> p, isource |-> s, icompS |-> cs, ireceiver |-> r, icompR |-> cr]

\* The next iteration of loops I/II after source channel (s, cs); when
\* both are exhausted the chunk is released (loop variables keep their
\* last values).
AfterSource(s, cs) ==
    IF cs + 1 < ncomp THEN Position("source", s, cs + 1, ireceiver, icompR)
    ELSE IF s + 1 < SourceCount THEN Position("source", s + 1, 0, ireceiver, icompR)
    ELSE Position("release", s, cs, ireceiver, icompR)

\* Mutant of AfterReceiver: loops III and IV nested the other way round
\* (all receivers for one component, then the next component).
AfterReceiverMut(s, cs, r, cr) ==
    IF r + 1 < nsta THEN Position("receiver", s, cs, r + 1, cr)
    ELSE IF cr + 1 < ncomp THEN Position("receiver", s, cs, FirstReceiver(s), cr + 1)
    ELSE [AfterSource(s, cs) EXCEPT !.ireceiver = r, !.icompR = cr]

\* The next iteration of loops III/IV after receiver channel (r, cr).
AfterReceiver(s, cs, r, cr) ==
    IF cr + 1 < ncomp THEN Position("receiver", s, cs, r, cr + 1)
    ELSE IF r + 1 < nsta THEN Position("receiver", s, cs, r + 1, 0)
    ELSE [AfterSource(s, cs) EXCEPT !.ireceiver = r, !.icompR = cr]

Goto(p) ==
    /\ pc' = p.pc
    /\ isource' = p.isource
    /\ icompS' = p.icompS
    /\ ireceiver' = p.ireceiver
    /\ icompR' = p.icompR

\* The first iteration of loops I/II of a chunk.
FirstSource ==
    IF 0 < SourceCount THEN Position("source", 0, 0, ireceiver, icompR)
    ELSE Position("release", isource, icompS, ireceiver, icompR)

\* ------------------------------------------------------------------- Init
\* line 137: the value of an MPI variable that holds nothing yet.
None == -1

\* line 121-122: the ranks of the workers.
Ranks == 0 .. size - 1

\* The surroundings of a day that is studied on its own: one worker, past
\* the startup and the broadcast, in the body of its first loop iteration.
OneWorkerInDay ==
    /\ size = 1
    /\ launcher = "hang"
    /\ f_metadata = TRUE /\ CCFDIR = TRUE /\ c_metadata = "complete"
    /\ nday = 1
    /\ published = TRUE
    /\ splits = [w \in Ranks |-> 1]
    /\ ii = [w \in Ranks |-> 0]
    /\ iters = [w \in Ranks |-> 1]
    /\ days = [w \in Ranks |-> << 0 >>]
    /\ wpc = [w \in Ranks |-> "day"]
    /\ werror = [w \in Ranks |-> "none"]

\* lines 168-169 read backwards: the station files that give this layout.
\* The probe's own variables play no part after line 168.
FilesOfLayout ==
    /\ sfiles = [i \in 1 .. nsta |-> ncomp]
    /\ jj = 0
    /\ data_types = ncomp

\* The state at line 167 of one day: the layout is known, nothing is
\* loaded, no label is bound, the day's container does not exist.
InitCommon ==
    /\ auto_corr \in BOOLEAN
    /\ ntrace = 0 /\ Nfft2 = 0
    /\ num_load = PyInt(1) /\ nseg2load = PyInt(0)
    /\ iload = 0 /\ isource = -1 /\ icompS = -1
    /\ ireceiver = -1 /\ icompR = -1
    /\ fft_array = << >> /\ fft_std = << >> /\ fft_flag = << >>
    /\ Timestamps = << >> /\ sta_info = << >>
    /\ sfft1 = << >> /\ source_std = << >> /\ bb = << >>
    /\ compS = Unset /\ compR = Unset
    /\ cc_aday_h5 = "absent"
    /\ log = << >>
    /\ error = "none"

Init ==
    /\ InitCommon
    /\ OneWorkerInDay
    /\ pc = "estimate"
    /\ nsta \in 1 .. MaxSta
    /\ ncomp \in 1 .. MaxComp
    /\ nsta * ncomp <= MaxTrace
    /\ FilesOfLayout
    /\ Nfft = NfftDay
    /\ Nseg = MaxSeg
    /\ MAX_MEM \in {MemSmall, MemLarge}

\* ---------------------------------------------------------------- actions
\* lines 167-185: data matrix parameters and the memory estimate.
MemoryEstimate ==
    /\ pc = "estimate"
    /\ UNCHANGED << probe, files, mpi >>
    /\ ntrace' = ncomp * nsta
    /\ Nfft2' = Nfft \div 2
    /\ num_load' = NumLoad(MAX_MEM, ntrace', Nfft2', Nseg)
    /\ nseg2load' = SegmentsPerLoad(MAX_MEM, ntrace', Nfft2', Nseg)
    /\ pc' = "chunk"
    /\ UNCHANGED << config, iload, isource, icompS, ireceiver, icompR, chunk,
                    sfft1, source_std, bb, labels, cc_aday_h5, log, error >>

\* line 188 with a num_load that np.floor produced: range() of a float
\* raises TypeError and the day ends there.
ChunkLoopTypeError ==
    /\ pc = "chunk"
    /\ UNCHANGED << probe, files, mpi >>
    /\ num_load.t # "int"
    /\ pc' = "crashed"
    /\ error' = "TypeError"
    /\ UNCHANGED << config, layout, iload, isource, icompS, ireceiver, icompR,
                    chunk, sfft1, source_std, bb, labels, cc_aday_h5, log >>

\* lines 188-198: the next chunk is loaded; load_fft_matrix returns the
\* spectra, the statistics, the flags, the timestamps and the station
\* information of every channel.
LoadChunk ==
    /\ pc = "chunk"
    /\ UNCHANGED << probe, files, mpi >>
    /\ num_load.t = "int"
    /\ iload < num_load.v
    /\ \E D \in SUBSET Channels :
         /\ Cardinality(D) <= MaxOdd
         /\ \E kind \in Kinds :
              LET K(c) == IF c \in D THEN kind ELSE "good"
              IN  /\ fft_flag' = [c \in Channels |-> FlagOf(K(c))]
                  /\ fft_std' = [c \in Channels |-> StdOf(K(c), c, nseg2load.v)]
    /\ fft_array' = [c \in Channels |->
                        [i \in Rows(nseg2load.v) |-> Row(c, iload * nseg2load.v + i)]]
    /\ Timestamps' = [c \in Channels |->
                        [i \in Rows(nseg2load.v) |-> Row(c, iload * nseg2load.v + i)]]
    /\ sta_info' = StaInfo(nsta)
    /\ Goto(FirstSource)
    /\ UNCHANGED << config, layout, iload, sfft1, source_std, bb, labels,
                    cc_aday_h5, log, error >>

\* line 188, range exhausted: the day is complete (lines 308-309).
DayComplete ==
    /\ pc = "chunk"
    /\ UNCHANGED << probe, files, mpi >>
    /\ num_load.t = "int"
    /\ iload >= num_load.v
    /\ pc' = "done"
    /\ UNCHANGED << config, layout, iload, isource, icompS, ireceiver, icompR,
                    chunk, sfft1, source_std, bb, labels, cc_aday_h5, log, error >>

\* lines 210-227: one source channel; without data it is skipped, else its
\* spectrum is smoothed once and the receiver loop starts.
SourceChannel ==
    /\ pc = "source"
    /\ UNCHANGED << probe, files, mpi >>
    /\ LET cc_indxS == ChannelIndex(isource, icompS)
       IN  IF ~HasData(cc_indxS)
           THEN /\ Goto(AfterSource(isource, icompS))
                /\ log' = Append(log, SourceEvent("nodataS"))
                /\ UNCHANGED << sfft1, source_std >>
           ELSE /\ sfft1' = SmoothSourceSpect(fft_array[cc_indxS])
                /\ source_std' = fft_std[cc_indxS]
                /\ log' = Append(log, SourceEvent("smooth"))
                /\ Goto(Position("receiver", isource, icompS,
                                 FirstReceiver(isource), 0))
    /\ UNCHANGED << config, layout, iload, chunk, bb, labels, cc_aday_h5, error >>

\* lines 242-268: one receiver channel; without data, or without a usable
\* segment, it is skipped; else the kernel is invoked on the rows bb.
ReceiverChannel ==
    /\ pc = "receiver"
    /\ UNCHANGED << probe, files, mpi >>
    /\ LET cc_indxR == ChannelIndex(ireceiver, icompR)
       IN  IF ~HasData(cc_indxR)
           THEN /\ Goto(AfterReceiver(isource, icompS, ireceiver, icompR))
                /\ log' = Append(log, PairEvent("nodataR"))
                /\ UNCHANGED bb
           ELSE LET b == UsableSegments(source_std, fft_std[cc_indxR])
                IN  /\ bb' = b
                    /\ IF NoSegments(b)
                       THEN /\ Goto(AfterReceiver(isource, icompS, ireceiver, icompR))
                            /\ log' = Append(log, PairEvent("empty"))
                       ELSE /\ log' = Append(log,
                                 [PairEvent("kernel") EXCEPT
                                     !.src = Take(sfft1, b),
                                     !.rec = Take(fft_array[cc_indxR], b),
                                     !.ts  = Take(Timestamps[cc_indxR], b)])
                            /\ Goto(Position("correlated", isource, icompS,
                                             ireceiver, icompR))
    /\ UNCHANGED << config, layout, iload, chunk, sfft1, source_std, labels,
                    cc_aday_h5, error >>

\* lines 270-296: the container is created if absent, the labels are
\* mapped and the record is added; a label that was never bound raises
\* NameError at line 292/293.
WriteRecord ==
    /\ pc = "correlated"
    /\ UNCHANGED << probe, files, mpi >>
    /\ cc_aday_h5' = "present"
    /\ compR' = LabelOf(icompR, compR)
    /\ compS' = LabelOf(icompS, compS)
    /\ IF compR' = Unset \/ compS' = Unset
       THEN /\ pc' = "crashed"
            /\ error' = "NameError"
            /\ UNCHANGED << isource, icompS, ireceiver, icompR, log >>
       ELSE /\ log' = Append(log,
                 [PairEvent("write") EXCEPT
                     !.path = PathOf(sta_info[ireceiver], compR', iload),
                     !.data_type = DataTypeOf(sta_info[isource], compS')])
            /\ Goto(AfterReceiver(isource, icompS, ireceiver, icompR))
            /\ UNCHANGED error
    /\ UNCHANGED << config, layout, iload, chunk, sfft1, source_std, bb >>

\* line 302: the name of an array of the chunk is bound to the empty list.
\* Mutant of Release: the array is kept.
ReleaseMut(a) == a
Release(a) == << >>

\* lines 302-306: the chunk's arrays are released; next chunk.
ReleaseChunk ==
    /\ pc = "release"
    /\ UNCHANGED << probe, files, mpi >>
    /\ fft_array' = Release(fft_array)
    /\ fft_std' = Release(fft_std)
    /\ fft_flag' = Release(fft_flag)
    /\ Timestamps' = Release(Timestamps)
    /\ iload' = iload + 1
    /\ pc' = "chunk"
    /\ UNCHANGED << config, layout, isource, icompS, ireceiver, icompR,
                    sta_info, sfft1, source_std, bb, labels, cc_aday_h5,
                    log, error >>

Next ==
    \/ MemoryEstimate
    \/ ChunkLoopTypeError
    \/ LoadChunk
    \/ DayComplete
    \/ SourceChannel
    \/ ReceiverChannel
    \/ WriteRecord
    \/ ReleaseChunk

Spec == Init /\ [][Next]_vars

\* --------------------------------------------- the memory plan on its own
\* The memory estimate over a wider range of layouts and budgets.
InitMem ==
    /\ InitCommon
    /\ OneWorkerInDay
    /\ pc = "estimate"
    /\ nsta \in 1 .. MaxSta
    /\ ncomp \in 1 .. MaxComp
    /\ FilesOfLayout
    /\ Nfft \in 2 .. MaxNfft
    /\ Nseg \in 1 .. MaxSegMem
    /\ MAX_MEM \in 1 .. MaxMemMem

NextMem == MemoryEstimate

SpecMem == InitMem /\ [][NextMem]_vars

\* ------------------------------------------------------- the layout probe
\* lines 152-169 of a worker's first day.  No statement before line 163
\* assigns ncomp, and no day before the first one has reached line 168.
MaxFiles == 5
MaxTypes == 3
MaxSegProbe == 4

\* line 160: the last jj of range(1,5).
ProbeLast == 4

\* A name of the script that no statement has assigned yet.
Unbound == -2

Max(a, b) == IF a > b THEN a ELSE b

\* lines 161 and 153: sfiles[j] with the 0-based j of the code.
HasFile(j) == j < Len(sfiles)
TypesOfFile(j) == sfiles[j + 1]

FileLists == UNION { [1 .. n -> 1 .. MaxTypes] : n \in 1 .. MaxFiles }

InitProbe ==
    /\ InitCommon
    /\ OneWorkerInDay
    /\ pc = "probe"
    /\ sfiles \in FileLists
    /\ jj = 0
    /\ data_types = Unbound
    /\ ncomp = Unbound /\ nsta = Unbound
    /\ Nfft = Unbound /\ Nseg = Unbound
    /\ MAX_MEM = MemLarge

\* lines 153-157: the first file gives data_types, Nfft and Nseg.
ProbeFirstFile ==
    /\ pc = "probe"
    /\ data_types' = TypesOfFile(0)
    /\ Nfft' = NfftDay
    /\ \E n \in 1 .. MaxSegProbe : Nseg' = n
    /\ jj' = 1
    /\ pc' = "probe_more"
    /\ UNCHANGED << auto_corr, MAX_MEM, nsta, ncomp, layout, iload, isource,
                    icompS, ireceiver, icompR, chunk, sfft1, source_std, bb,
                    labels, cc_aday_h5, log, error, sfiles, files, mpi >>

\* lines 160-169: one turn of the loop over the files 1..4, or its exit.
\* sfiles[jj] raises IndexError past the last file, the comparison with
\* ncomp raises NameError while ncomp is unbound; after the loop ncomp is
\* the number of data types of the file opened last.
ProbeMoreFiles ==
    /\ pc = "probe_more"
    /\ IF jj > ProbeLast
       THEN /\ ncomp' = data_types
            /\ nsta' = Len(sfiles)
            /\ pc' = "estimate"
            /\ UNCHANGED << jj, data_types, error >>
       ELSE IF ~HasFile(jj)
       THEN /\ pc' = "crashed"
            /\ error' = "IndexError"
            /\ UNCHANGED << jj, data_types, ncomp, nsta >>
       ELSE /\ data_types' = TypesOfFile(jj)
            /\ IF ncomp = Unbound
               THEN /\ pc' = "crashed"
                    /\ error' = "NameError"
                    /\ UNCHANGED << jj, ncomp >>
               ELSE /\ ncomp' = Max(ncomp, data_types')
                    /\ jj' = jj + 1
                    /\ UNCHANGED << pc, error >>
            /\ UNCHANGED nsta
    /\ UNCHANGED << auto_corr, MAX_MEM, Nfft, Nseg, layout, iload, isource,
                    icompS, ireceiver, icompR, chunk, sfft1, source_std, bb,
                    labels, cc_aday_h5, log, sfiles, files, mpi >>

NextProbe ==
    \/ ProbeFirstFile
    \/ ProbeMoreFiles

SpecProbe == InitProbe /\ [][NextProbe]_vars

\* ------------------------------------------------- the workers of a run
\* lines 57-148 and 312-317 for size workers that run the script side by
\* side.  The body of a day (lines 150-309) is one step here: it ends
\* normally or with an exception, which nothing in the script catches.
MaxSize == 3
MaxDays == 4

day_state == << auto_corr, MAX_MEM, nsta, ncomp, Nfft, Nseg, layout, iload,
                isource, icompS, ireceiver, icompR, chunk, sfft1, source_std,
                bb, labels, cc_aday_h5, log, error, pc, probe >>

\* How the body of a day can end: normally, with the IOError of the
\* container (lines 270-296), with the NameError of the probe (line 163).
DayOutcomes == {"ok", "IOError", "NameError"}

\* Mutant of NoInput: the test is missing.
NoInputMut(found) == FALSE

\* line 134: "not sfiles".
NoInput(found) == Len(found) = 0

\* line 145: range(rank, ...), the first index of a worker.
FirstIndex(rank) == rank

\* Mutant of LoopBound: range(rank, splits, size).
LoopBoundMut(s, n) == s

\* lines 143-145: the end of the range, splits+size-extra.
LoopBound(s, n) == s + n - (s % n)

\* Mutant of NextIndex: the stride is one.
NextIndexMut(i, n) == i + 1

\* line 145: the stride of the range.
NextIndex(i, n) == i + n

\* Where a worker is after an exception raised at position p: the script
\* has no try statement, the exception ends the process.
Uncaught(p) == "crashed"

Raise(w, e) ==
    /\ wpc' = [wpc EXCEPT ![w] = Uncaught(wpc[w])]
    /\ werror' = [werror EXCEPT ![w] = e]

Step(w, p) ==
    /\ wpc' = [wpc EXCEPT ![w] = p]
    /\ UNCHANGED werror

InitMPI ==
    /\ InitCommon
    /\ auto_corr = FALSE
    /\ pc = "outside"
    /\ nsta = Unbound /\ ncomp = Unbound /\ Nfft = Unbound /\ Nseg = Unbound
    /\ MAX_MEM = MemLarge
    /\ sfiles \in {<< >>, << 1 >>}
    /\ jj = 0 /\ data_types = Unbound
    /\ size \in 1 .. MaxSize
    /\ launcher \in {"hang", "abort"}
    /\ f_metadata \in BOOLEAN
    /\ CCFDIR \in BOOLEAN
    /\ c_metadata = "absent"
    /\ nday \in 0 .. MaxDays
    /\ published = FALSE
    /\ splits = [w \in Ranks |-> None]
    /\ ii = [w \in Ranks |-> None]
    /\ iters = [w \in Ranks |-> 0]
    /\ days = [w \in Ranks |-> << >>]
    /\ wpc = [w \in Ranks |-> "start"]
    /\ werror = [w \in Ranks |-> "none"]

\* lines 67-69: without the metadata file of the previous stage the
\* worker raises ValueError.
CheckMetadata(w) ==
    /\ wpc[w] = "start"
    /\ IF f_metadata THEN Step(w, "isdir") ELSE Raise(w, "ValueError")
    /\ UNCHANGED << day_state, files, size, launcher, nday, published,
                    splits, ii, iters, days >>

\* line 74, the test: os.path.isdir(CCFDIR).
CheckDir(w) ==
    /\ wpc[w] = "isdir"
    /\ Step(w, IF CCFDIR THEN "open" ELSE "mkdir")
    /\ UNCHANGED << day_state, files, size, launcher, nday, published,
                    splits, ii, iters, days >>

\* line 74, the call: os.mkdir(CCFDIR) raises FileExistsError when the
\* directory has appeared since the test.
MakeDir(w) ==
    /\ wpc[w] = "mkdir"
    /\ IF CCFDIR
       THEN Raise(w, "FileExistsError") /\ UNCHANGED CCFDIR
       ELSE Step(w, "open") /\ CCFDIR' = TRUE
    /\ UNCHANGED << day_state, f_metadata, c_metadata, size, launcher, nday,
                    published, splits, ii, iters, days >>

\* line 112: open(c_metadata,'w') creates the file or truncates it.
OpenMetadata(w) ==
    /\ wpc[w] = "open"
    /\ c_metadata' = "empty"
    /\ Step(w, "close")
    /\ UNCHANGED << day_state, f_metadata, CCFDIR, size, launcher, nday,
                    published, splits, ii, iters, days >>

\* lines 113-114: the buffered text reaches the file, from its start, when
\* the file is closed.
CloseMetadata(w) ==
    /\ wpc[w] = "close"
    /\ c_metadata' = "complete"
    /\ Step(w, "setup")
    /\ UNCHANGED << day_state, f_metadata, CCFDIR, size, launcher, nday,
                    published, splits, ii, iters, days >>

\* lines 125-135: the root makes the directory if it is missing, lists the
\* station files and the days, and raises IOError without station files.
RootSetup ==
    /\ wpc[0] = "setup"
    /\ CCFDIR' = TRUE
    /\ splits' = [splits EXCEPT ![0] = nday]
    /\ IF NoInput(sfiles) THEN Raise(0, "IOError") ELSE Step(0, "bcast")
    /\ UNCHANGED << day_state, f_metadata, c_metadata, size, launcher, nday,
                    published, ii, iters, days >>

\* line 137: the other workers hold None.
OtherSetup(w) ==
    /\ w # 0
    /\ wpc[w] = "setup"
    /\ splits' = [splits EXCEPT ![w] = None]
    /\ Step(w, "bcast")
    /\ UNCHANGED << day_state, files, size, launcher, nday, published, ii,
                    iters, days >>

\* lines 140-145 at the root: its values are sent; the loop starts.
RootBcast ==
    /\ wpc[0] = "bcast"
    /\ published' = TRUE
    /\ ii' = [ii EXCEPT ![0] = FirstIndex(0)]
    /\ Step(0, "loop")
    /\ UNCHANGED << day_state, files, size, launcher, nday, splits, iters,
                    days >>

\* lines 140-145 at another worker: it waits for the root's values.
ReceiveBcast(w) ==
    /\ w # 0
    /\ wpc[w] = "bcast"
    /\ published
    /\ splits' = [splits EXCEPT ![w] = splits[0]]
    /\ ii' = [ii EXCEPT ![w] = FirstIndex(w)]
    /\ Step(w, "loop")
    /\ UNCHANGED << day_state, files, size, launcher, nday, published, iters,
                    days >>

\* lines 145-148: an iteration with ii < splits takes up the day ii.
BeginDay(w) ==
    /\ wpc[w] = "loop"
    /\ ii[w] < LoopBound(splits[w], size)
    /\ ii[w] < splits[w]
    /\ iters' = [iters EXCEPT ![w] = @ + 1]
    /\ days' = [days EXCEPT ![w] = Append(@, ii[w])]
    /\ Step(w, "day")
    /\ UNCHANGED << day_state, files, size, launcher, nday, published,
                    splits, ii >>

\* lines 145-147: an iteration with ii >= splits does nothing.
PaddingIteration(w) ==
    /\ wpc[w] = "loop"
    /\ ii[w] < LoopBound(splits[w], size)
    /\ ii[w] >= splits[w]
    /\ iters' = [iters EXCEPT ![w] = @ + 1]
    /\ ii' = [ii EXCEPT ![w] = NextIndex(@, size)]
    /\ Step(w, "loop")
    /\ UNCHANGED << day_state, files, size, launcher, nday, published,
                    splits, days >>

\* lines 150-309: the body of the day ends; an exception leaves the loop.
EndDay(w) ==
    /\ wpc[w] = "day"
    /\ \E outcome \in DayOutcomes :
         IF outcome = "ok"
         THEN /\ ii' = [ii EXCEPT ![w] = NextIndex(@, size)]
              /\ Step(w, "loop")
         ELSE /\ Raise(w, outcome)
              /\ UNCHANGED ii
    /\ UNCHANGED << day_state, files, size, launcher, nday, published,
                    splits, iters, days >>

\* lines 312-315: the range is exhausted, the worker enters the barrier.
LoopExit(w) ==
    /\ wpc[w] = "loop"
    /\ ii[w] >= LoopBound(splits[w], size)
    /\ Step(w, "barrier")
    /\ UNCHANGED << day_state, files, size, launcher, nday, published,
                    splits, ii, iters, days >>

\* lines 315-317: the barrier opens when every worker has entered it.
PassBarrier(w) ==
    /\ wpc[w] = "barrier"
    /\ \A v \in Ranks : wpc[v] \in {"barrier", "exited"}
    /\ Step(w, "exited")
    /\ UNCHANGED << day_state, files, size, launcher, nday, published,
                    splits, ii, iters, days >>

\* A worker that has not ended.
Live(w) == wpc[w] \notin {"crashed", "killed", "exited"}

\* The MPI runtime: a launcher that watches its processes ends them all
\* when one has died; otherwise the others are left where they are.
JobAbort ==
    /\ launcher = "abort"
    /\ \E w \in Ranks : wpc[w] = "crashed"
    /\ \E w \in Ranks : Live(w)
    /\ wpc' = [w \in Ranks |-> IF Live(w) THEN "killed" ELSE wpc[w]]
    /\ UNCHANGED << day_state, files, size, launcher, nday, published,
                    splits, ii, iters, days, werror >>

NextMPI ==
    \/ \E w \in Ranks : CheckMetadata(w)
    \/ \E w \in Ranks : CheckDir(w)
    \/ \E w \in Ranks : MakeDir(w)
    \/ \E w \in Ranks : OpenMetadata(w)
    \/ \E w \in Ranks : CloseMetadata(w)
    \/ RootSetup
    \/ \E w \in Ranks : OtherSetup(w)
    \/ RootBcast
    \/ \E w \in Ranks : ReceiveBcast(w)
    \/ \E w \in Ranks : BeginDay(w)
    \/ \E w \in Ranks : PaddingIteration(w)
    \/ \E w \in Ranks : EndDay(w)
    \/ \E w \in Ranks : LoopExit(w)
    \/ \E w \in Ranks : PassBarrier(w)
    \/ JobAbort

SpecMPI == InitMPI /\ [][NextMPI]_vars

\* ================================================================ claims
\* Vocabulary of the claims, stated on the history and the loaded chunk
\* without the operators of the model above.
Loaded == DOMAIN fft_flag # {}

EventIdx == 1 .. Len(log)

IsPair(e) == e.op \in {"nodataR", "empty", "kernel", "write"}

SameTuple(e, f) ==
    /\ e.iload = f.iload /\ e.isource = f.isource /\ e.icompS = f.icompS
    /\ e.ireceiver = f.ireceiver /\ e.icompR = f.icompR

TupleOf(e) == << e.iload, e.isource, e.icompS, e.ireceiver, e.icompR >>

IsWrite(e) == e.op = "write"

IsCurrent(e) ==
    /\ e.iload = iload /\ e.isource = isource /\ e.icompS = icompS
    /\ e.ireceiver = ireceiver /\ e.icompR = icompR

FlagTrue(ista, icomp) == fft_flag[ista * ncomp + icomp] # 0

\* 0 < x < max_over_std and x is a number
PassesFilter(x) == x # NaN /\ 0 < x /\ x < max_over_std

UsableSet(s, cs, r, cr) ==
    {i \in 0 .. (nseg2load.v - 1) :
        /\ PassesFilter(fft_std[s * ncomp + cs][i])
        /\ PassesFilter(fft_std[r * ncomp + cr][i])}

ValidTuple(s, cs, r, cr) ==
    /\ s < r
    /\ FlagTrue(s, cs) /\ FlagTrue(r, cr)
    /\ UsableSet(s, cs, r, cr) # {}

Stations == 0 .. (nsta - 1)
Comps == 0 .. (ncomp - 1)

\* C1: while a day is processed, a record is written exactly once for
\* every tuple (chunk, source channel, receiver channel) with source
\* station < receiver station, both flags true and a non-empty usable
\* intersection; the write follows that pair's kernel invocation and
\* precedes the advance to the next receiver channel; no other tuple gets
\* a record.
C1_RecordPerValidTuple ==
    /\ \A k \in EventIdx : log[k].op = "write" =>
          /\ k > 1 /\ log[k - 1].op = "kernel" /\ SameTuple(log[k - 1], log[k])
          /\ \A j \in EventIdx : (j # k /\ log[j].op = "write") => ~SameTuple(log[j], log[k])
    /\ \A k \in EventIdx : log[k].op = "kernel" =>
          IF k < Len(log)
          THEN log[k + 1].op = "write" /\ SameTuple(log[k], log[k + 1])
          ELSE pc = "correlated" /\ IsCurrent(log[k])
    /\ Loaded =>
          \A k \in EventIdx : (log[k].op = "write" /\ log[k].iload = iload) =>
              ValidTuple(log[k].isource, log[k].icompS, log[k].ireceiver, log[k].icompR)
    /\ (Loaded /\ pc \in {"release", "crashed"}) =>
          \A s \in Stations, r \in Stations, cs \in Comps, cr \in Comps :
              ValidTuple(s, cs, r, cr) =>
                  \E k \in EventIdx :
                      /\ log[k].op = "write" /\ log[k].iload = iload
                      /\ log[k].isource = s /\ log[k].icompS = cs
                      /\ log[k].ireceiver = r /\ log[k].icompR = cr

\* C2: a channel whose validity flag is false is never the source or the
\* receiver of a record, whatever its statistics, and no smoothing,
\* filtering or kernel invocation is done for it.
C2_NoDataChannelSkipped ==
    Loaded =>
        \A k \in EventIdx : log[k].iload = iload =>
            /\ log[k].op \in {"smooth", "nodataR", "empty", "kernel", "write"}
                  => FlagTrue(log[k].isource, log[k].icompS)
            /\ log[k].op \in {"empty", "kernel", "write"}
                  => FlagTrue(log[k].ireceiver, log[k].icompR)

\* C2 witness: a chunk was processed to its end in which a source channel
\* and a receiver channel without data, both with passing statistics, were
\* met, and a record was written for another pair.
C2_Witness ==
    /\ Loaded /\ pc = "release"
    /\ \E k \in EventIdx : log[k].op = "write"
    /\ \E k \in EventIdx :
          /\ log[k].op = "nodataS"
          /\ \A i \in 0 .. (nseg2load.v - 1) :
                PassesFilter(fft_std[log[k].isource * ncomp + log[k].icompS][i])
    /\ \E k \in EventIdx :
          /\ log[k].op = "nodataR"
          /\ \A i \in 0 .. (nseg2load.v - 1) :
                PassesFilter(fft_std[log[k].ireceiver * ncomp + log[k].icompR][i])

\* C3: a pair whose usable-segment intersection is empty is skipped: no
\* kernel invocation and no record for it, no error, and the controller
\* continues with the next receiver channel.
C3_EmptyIntersectionSkipped ==
    /\ Loaded =>
          \A k \in EventIdx : log[k].iload = iload =>
              /\ log[k].op \in {"kernel", "write"} =>
                    UsableSet(log[k].isource, log[k].icompS,
                              log[k].ireceiver, log[k].icompR) # {}
              /\ log[k].op = "empty" =>
                    UsableSet(log[k].isource, log[k].icompS,
                              log[k].ireceiver, log[k].icompR) = {}
    /\ (Len(log) > 0 /\ log[Len(log)].op = "empty") =>
          LET e == log[Len(log)]
          IN  /\ error = "none" /\ pc # "crashed"
              /\ IF e.icompR + 1 < ncomp
                 THEN /\ pc = "receiver"
                      /\ isource = e.isource /\ icompS = e.icompS
                      /\ ireceiver = e.ireceiver /\ icompR = e.icompR + 1
                 ELSE IF e.ireceiver + 1 < nsta
                 THEN /\ pc = "receiver"
                      /\ isource = e.isource /\ icompS = e.icompS
                      /\ ireceiver = e.ireceiver + 1 /\ icompR = 0
                 ELSE pc \in {"source", "release", "chunk", "done"}

\* C3 witness: a receiver whose statistics are all 0 was skipped and the
\* next receiver channel was then correlated and written.
C3_Witness ==
    /\ Loaded
    /\ \E k \in EventIdx :
          /\ log[k].op = "empty"
          /\ \A i \in 0 .. (nseg2load.v - 1) :
                fft_std[log[k].ireceiver * ncomp + log[k].icompR][i] = 0
          /\ k + 2 <= Len(log)
          /\ log[k + 1].op = "kernel" /\ log[k + 2].op = "write"

\* C4: the segments handed to the kernel are exactly the indices i, in
\* ascending order and without duplicates, with 0 < source_stat[i] <
\* max_over_std and 0 < receiver_stat[i] < max_over_std, neither NaN; the
\* same indices select the (smoothed) source rows, the receiver rows and
\* the receiver timestamps.
C4_KernelSegments ==
    Loaded =>
        \A k \in EventIdx : (log[k].op = "kernel" /\ log[k].iload = iload) =>
            LET e == log[k]
                U == UsableSet(e.isource, e.icompS, e.ireceiver, e.icompR)
                base == e.iload * nseg2load.v
            IN  /\ Len(e.src) = Cardinality(U)
                /\ Len(e.rec) = Len(e.src) /\ Len(e.ts) = Len(e.src)
                /\ \A j \in 1 .. Len(e.src) :
                      /\ e.src[j].seg - base \in U
                      /\ j > 1 => e.src[j - 1].seg < e.src[j].seg
                      /\ e.src[j] = [ch |-> e.isource * ncomp + e.icompS,
                                     seg |-> e.src[j].seg, smooth |-> TRUE]
                      /\ e.rec[j] = [ch |-> e.ireceiver * ncomp + e.icompR,
                                     seg |-> e.src[j].seg, smooth |-> FALSE]
                      /\ e.ts[j] = e.rec[j]

\* C4 witness: the kernel was invoked on a proper, non-empty part of the
\* chunk's segments, one endpoint having a statistic on the threshold.
C4_Witness ==
    /\ Loaded
    /\ \E k \in EventIdx :
          /\ log[k].op = "kernel"
          /\ Len(log[k].src) > 0 /\ Len(log[k].src) < nseg2load.v
          /\ \E i \in 0 .. (nseg2load.v - 1) :
                fft_std[log[k].isource * ncomp + log[k].icompS][i] = max_over_std

\* C5: with self-correlation disabled every pair processed has source
\* station < receiver station; within a chunk each unordered pair of
\* distinct stations is visited in that one orientation only (once per
\* component combination), never swapped, and no station meets itself.
C5_OrderedPairs ==
    ~auto_corr =>
        /\ \A k \in EventIdx : IsPair(log[k]) => log[k].isource < log[k].ireceiver
        /\ LET V == {k \in EventIdx : log[k].op \in {"nodataR", "empty", "kernel"}}
           IN  Cardinality({TupleOf(log[k]) : k \in V}) = Cardinality(V)
        /\ (Loaded /\ pc = "release") =>
              \A s \in Stations, r \in Stations :
                  (s < r /\ \E cs \in Comps : FlagTrue(s, cs)) =>
                      \E k \in EventIdx :
                          IsPair(log[k]) /\ log[k].isource = s /\ log[k].ireceiver = r

\* C5 witness: three stations, self-correlation off, the chunk finished,
\* all three pairs visited.
C5_Witness ==
    /\ ~auto_corr /\ pc = "release" /\ nsta >= 3
    /\ \A s \in Stations, r \in Stations : s < r =>
          \E k \in EventIdx :
              IsPair(log[k]) /\ log[k].isource = s /\ log[k].ireceiver = r

\* C6: with auto_corr true, every station is also paired with itself once
\* per component combination (handled as an ordinary receiver); with it
\* false no such pair is processed.
C6_SelfPairsWhenEnabled ==
    (Loaded /\ pc = "release") =>
        \A s \in Stations, cs \in Comps, cr \in Comps :
            FlagTrue(s, cs) =>
                Cardinality({k \in EventIdx :
                    /\ log[k].op \in {"nodataR", "empty", "kernel"}
                    /\ log[k].isource = s /\ log[k].ireceiver = s
                    /\ log[k].icompS = cs /\ log[k].icompR = cr})
                = IF auto_corr THEN 1 ELSE 0

\* ceil(a / b) for a >= 0, b > 0
CeilDiv(a, b) == (a + b - 1) \div b

\* C7: for every budget, channel count, half-spectrum length and Nseg,
\* num_load * nseg2load >= Nseg and nseg2load * footprint <= budget; when
\* the day fits there is one chunk of Nseg segments.
C7_ChunksCoverDay ==
    pc # "estimate" =>
        LET F == ntrace * Nfft2 * BytesPerValue
        IN  /\ num_load.t # "inf" /\ nseg2load.t # "inf"
            /\ num_load.v * nseg2load.v >= Nseg
            /\ nseg2load.v * F <= MAX_MEM
            /\ Nseg * F <= MAX_MEM => (num_load.v = 1 /\ nseg2load.v = Nseg)

\* C8: when the day's spectra exceed the budget, num_load is the ceiling
\* of (total size / budget), and it is positive and finite for every
\* input.
C8_CeilingChunkCount ==
    (pc # "estimate" /\ Nseg * ntrace * Nfft2 * BytesPerValue > MAX_MEM) =>
        /\ num_load.t # "inf"
        /\ num_load.v >= 1
        /\ num_load.v = CeilDiv(Nseg * ntrace * Nfft2 * BytesPerValue, MAX_MEM)

\* (chunk, source, source component, receiver, receiver component) order
LexLess(e, f) ==
    \/ e.iload < f.iload
    \/ e.iload = f.iload /\ e.isource < f.isource
    \/ e.iload = f.iload /\ e.isource = f.isource /\ e.icompS < f.icompS
    \/ /\ e.iload = f.iload /\ e.isource = f.isource /\ e.icompS = f.icompS
       /\ e.ireceiver < f.ireceiver
    \/ /\ e.iload = f.iload /\ e.isource = f.isource /\ e.icompS = f.icompS
       /\ e.ireceiver = f.ireceiver /\ e.icompR < f.icompR

\* C9: within a day the records are written in strictly increasing
\* lexicographic order of (chunk, source station, source component,
\* receiver station, receiver component); the sequence written so far is
\* the ascending list of the valid tuples up to the last one written, so
\* it is a function of the inputs.
C9_WriteOrder ==
    LET W == SelectSeq(log, IsWrite)
    IN  /\ \A k \in 1 .. (Len(W) - 1) : LexLess(W[k], W[k + 1])
        /\ (Loaded /\ Len(W) > 0 /\ W[Len(W)].iload = iload) =>
              \A s \in Stations, r \in Stations, cs \in Comps, cr \in Comps :
                  (/\ s < r
                   /\ LexLess([iload |-> iload, isource |-> s, icompS |-> cs,
                               ireceiver |-> r, icompR |-> cr], W[Len(W)])
                   /\ ValidTuple(s, cs, r, cr))
                  => \E k \in 1 .. Len(W) :
                        TupleOf(W[k]) = << iload, s, cs, r, cr >>

\* C9 witness: a finished chunk whose records span two source stations,
\* two source components, two receiver stations and two receiver
\* components.
C9_Witness ==
    LET W == {k \in EventIdx : log[k].op = "write"}
    IN  /\ pc = "release"
        /\ Cardinality({log[k].isource : k \in W}) >= 2
        /\ Cardinality({log[k].icompS : k \in W}) >= 2
        /\ Cardinality({log[k].ireceiver : k \in W}) >= 2
        /\ Cardinality({log[k].icompR : k \in W}) >= 2

LabelS(e) == e.data_type[Len(e.data_type)]
LabelR(e) == e.path[Len(e.path) - Len(Str(e.iload))]

\* C10: within a day no two writes use the same (data_type, path), for
\* every number of components and every set of distinct station codes, and
\* the label written is the one of the current component index (one label
\* per index).
C10_UniqueAddress ==
    \A k \in EventIdx, j \in EventIdx :
        (k < j /\ log[k].op = "write" /\ log[j].op = "write") =>
            /\ << log[k].data_type, log[k].path >> # << log[j].data_type, log[j].path >>
            /\ (log[k].icompS = log[j].icompS) <=> (LabelS(log[k]) = LabelS(log[j]))
            /\ (log[k].icompR = log[j].icompR) <=> (LabelR(log[k]) = LabelR(log[j]))

\* ------------------------------------------------- workers, days, startup
\* Vocabulary of the claims on the workers of a run.
DaysOf(w) == { days[w][k] : k \in 1 .. Len(days[w]) }
DayIndices == 0 .. nday - 1
LoopsOver == \A w \in Ranks : wpc[w] \in {"barrier", "exited"}

\* C11: the stride split gives each day index in 0..splits-1 to exactly one
\* worker, the one whose rank is the index modulo size: a worker takes up
\* only days of its own residue and none twice, the sets of days of
\* different workers are disjoint, and once every worker has left its loop
\* every day of the list has been taken up (so no two workers write the
\* container of one day).
C11_StrideSplit ==
    /\ \A w \in Ranks :
         /\ \A d \in DaysOf(w) : d \in DayIndices /\ d % size = w
         /\ \A k \in 1 .. Len(days[w]) - 1 : days[w][k] < days[w][k + 1]
    /\ \A w, v \in Ranks : w # v => DaysOf(w) \cap DaysOf(v) = {}
    /\ LoopsOver => UNION { DaysOf(w) : w \in Ranks } = DayIndices

\* Three days or more over two workers or more, all loops over, the first
\* worker with two days and the second with one.
C11_Witness ==
    /\ size >= 2 /\ nday >= 3
    /\ LoopsOver
    /\ Len(days[0]) >= 2 /\ Len(days[1]) >= 1
    /\ \A w \in Ranks : wpc[w] = "exited"

\* The day body has ended, normally or with an exception.
DayEnded == pc \in {"done", "crashed"}
IsKernel(e) == e.op = "kernel"
AllValid ==
    Loaded => \A c \in DOMAIN fft_flag :
                 /\ fft_flag[c] # 0
                 /\ \A i \in DOMAIN fft_std[c] : PassesFilter(fft_std[c][i])

\* C12: a day with exactly two station files A and B, one component each,
\* four segments, everything valid, passes the layout probe and the
\* iteration and ends with exactly one record, addressed by (B, component,
\* chunk 0), grouped under (A, component), built from all four segments.
C12_TwoStationDay ==
    (sfiles = << 1, 1 >> /\ Nseg = 4 /\ AllValid /\ DayEnded) =>
        /\ pc = "done"
        /\ LET W == SelectSeq(log, IsWrite)
               K == SelectSeq(log, IsKernel)
           IN  /\ Len(W) = 1 /\ Len(K) = 1
               /\ W[1].path = << "A", "B", "s", "C", "s", "E", "0" >>
               /\ W[1].data_type = << "A", "s", "B", "C", "s", "E" >>
               /\ Len(K[1].src) = 4

\* The worker w has had the container of a day fail under it.
ContainerFailed(w) == werror[w] = "IOError" /\ Len(days[w]) > 0

\* C13: a failure to create or append to the container of a day is fatal
\* for that day only: the worker does not take the day up again and goes
\* on with its loop (its next day, the barrier, the end of the script).
C13_FailureFatalForDayOnly ==
    \A w \in Ranks : ContainerFailed(w) =>
        /\ wpc[w] \in {"loop", "day", "barrier", "exited"}
        /\ \A k \in 1 .. Len(days[w]) - 1 : days[w][k] < days[w][k + 1]

\* C14: without the metadata file of the previous stage, or without any
\* station file, the run ends in the global setup: no worker of any rank
\* gets past the broadcast, enters a loop iteration or takes up a day (so
\* none loads a chunk, invokes the kernel or writes a record).
C14_SetupAbort ==
    (~f_metadata \/ Len(sfiles) = 0) =>
        \A w \in Ranks :
            /\ days[w] = << >>
            /\ iters[w] = 0
            /\ wpc[w] \notin {"loop", "day", "barrier", "exited"}

\* No station file, one day or more, two workers or more: the root has
\* raised IOError at line 135 and another worker waits in the broadcast.
C14_Witness ==
    /\ f_metadata /\ Len(sfiles) = 0 /\ nday >= 1 /\ size >= 2
    /\ wpc[0] = "crashed" /\ werror[0] = "IOError"
    /\ wpc[1] = "bcast"

\* The worker w has died in the setup of the root (line 135) or in a day.
HardFailure(w) ==
    wpc[w] = "crashed" /\ werror[w] \in DayOutcomes \ {"ok"}

\* C15: a hard failure in one worker leaves no sibling blocked for ever:
\* when a worker has died so and the run can take no further step, every
\* other worker has completed its days, passed the broadcast and the final
\* barrier and ended normally.
C15_NoSiblingBlocked ==
    ((\E w \in Ranks : HardFailure(w)) /\ ~ENABLED NextMPI) =>
        \A v \in Ranks : wpc[v] # "crashed" => wpc[v] = "exited"

\* ------------------------------------------------- smoothing and chunks
IsSmooth(e) == e.op = "smooth"
SourceOf(e) == << e.iload, e.isource, e.icompS >>
SmoothedSources == { SourceOf(log[k]) : k \in { j \in EventIdx : IsSmooth(log[j]) } }
FlaggedSources ==
    { << iload, s, cs >> : s \in 0 .. (nsta - 2), cs \in Comps } \cap
    { << iload, c \div ncomp, c % ncomp >> : c \in { d \in DOMAIN fft_flag : fft_flag[d] # 0 } }

\* C16: within one chunk the smoother is invoked once for each source
\* channel whose flag is true (never twice, and exactly once by the end of
\* the chunk) and never for a source channel whose flag is false; every
\* step of the receiver loop follows the smoothing of its own source
\* channel with no other smoothing in between, and the kernel is handed
\* the smoothed rows of that source channel.
C16_SmoothOncePerSource ==
    Loaded =>
        /\ Cardinality(SmoothedSources) = Len(SelectSeq(log, IsSmooth))
        /\ SmoothedSources \subseteq FlaggedSources
        /\ pc = "release" => SmoothedSources = FlaggedSources
        /\ \A k \in EventIdx : IsPair(log[k]) =>
              /\ k > 1
              /\ IsSmooth(log[k - 1]) \/ IsPair(log[k - 1])
              /\ SourceOf(log[k - 1]) = SourceOf(log[k])
        /\ \A k \in EventIdx : IsKernel(log[k]) =>
              \A j \in 1 .. Len(log[k].src) :
                  /\ log[k].src[j].smooth
                  /\ log[k].src[j].ch = log[k].isource * ncomp + log[k].icompS

\* A chunk processed to its end in which one source channel was skipped
\* for want of data and another, smoothed once, met the kernel with two
\* receiver channels.
C16_Witness ==
    /\ Loaded /\ pc = "release"
    /\ \E k \in EventIdx : log[k].op = "nodataS"
    /\ \E k \in EventIdx :
          /\ IsSmooth(log[k])
          /\ Cardinality({ j \in EventIdx : IsKernel(log[j])
                              /\ SourceOf(log[j]) = SourceOf(log[k]) }) >= 2

Held(a) == DOMAIN a # {}
IsSourceEvent(e) == e.op \in {"smooth", "nodataS"}
IsPairEnd(e) == e.op \in {"nodataR", "empty", "write"}
EventsOfChunk(k, Test(_)) == { j \in EventIdx : log[j].iload = k /\ Test(log[j]) }
SegmentsOfChunk(k) == (k * nseg2load.v) .. ((k + 1) * nseg2load.v - 1)

ProbeEnded == pc \in {"estimate", "crashed"}
Sampled == 1 .. (IF Len(sfiles) < ProbeLast + 1 THEN Len(sfiles) ELSE ProbeLast + 1)
SampleAgrees == \A i, j \in Sampled : sfiles[i] = sfiles[j]

\* C18: the layout probe verifies that the sampled station files have the
\* same number of components: when they differ it raises a configuration
\* error, when they agree (for any number of station files >= 1) it ends
\* without error and ncomp is that common number.
C18_ProbeVerifies ==
    ProbeEnded =>
        IF SampleAgrees
        THEN pc = "estimate" /\ error = "none" /\ ncomp = sfiles[1]
        ELSE pc = "crashed" /\ error = "ConfigurationError"

\* C19: every worker makes the same number of loop iterations,
\* floor(splits/size)+1; it takes up a day only in an iteration with
\* ii < splits, the other iterations do nothing; and when no worker has
\* failed the run does not stop before every worker has passed the final
\* barrier.
C19_EqualIterations ==
    /\ \A w \in Ranks :
          /\ iters[w] <= (nday \div size) + 1
          /\ wpc[w] \in {"barrier", "exited"} =>
                /\ iters[w] = (nday \div size) + 1
                /\ DaysOf(w) = { d \in DayIndices : d % size = w }
          /\ Len(days[w]) <= iters[w]
          /\ \A d \in DaysOf(w) : d < nday
    /\ ((\A w \in Ranks : werror[w] = "none") /\ ~ENABLED NextMPI) =>
          \A w \in Ranks : wpc[w] = "exited"

\* Several workers, days that do not divide evenly, no failure, the run
\* over: one worker has spent an iteration on padding, another none.
C19_Witness ==
    /\ size >= 2 /\ nday >= 1 /\ nday % size # 0
    /\ \A w \in Ranks : wpc[w] = "exited" /\ werror[w] = "none"
    /\ \E w \in Ranks : Len(days[w]) < iters[w]
    /\ \E w \in Ranks : Len(days[w]) = iters[w]

PastStartup(w) == wpc[w] \notin {"start", "isdir", "mkdir", "open", "close"}

\* C20: the startup is safe under concurrent workers: in every
\* interleaving no worker's check-then-create of the output directory
\* fails, every worker's metadata write succeeds, and once all workers are
\* past the startup the metadata file holds one complete copy of the
\* parameter set.
C20_StartupSafe ==
    f_metadata =>
        /\ \A w \in Ranks : werror[w] # "FileExistsError"
        /\ (\A w \in Ranks : PastStartup(w)) => c_metadata = "complete"

====
